---- MODULE Spec2Model ----
(***************************************************************************)
(* Command policy validator (server_validation.py): the CommandValidator  *)
(* object, the regular-expression policy table it scans, and the          *)
(* call_tool facade that exposes it as four tool operations.              *)
(*                                                                         *)
(* A command is a sequence of one-character strings.  Regular expressions *)
(* are kept as parsed atoms and matched by re_search the way re.search    *)
(* with re.IGNORECASE matches them.                                        *)
(***************************************************************************)
EXTENDS Integers, Sequences, FiniteSets, TLC

\* ------------------------------------------------------------------------
\* Bounds of the model
\* ------------------------------------------------------------------------
\* longest audit log explored by Spec
MaxLog == 2
\* longest audit log explored by SpecLong (exceeds the recent_log window)
MaxLongLog == 11
\* number of tool-call tasks explored by SpecConc
MaxTasks == 3

\* ------------------------------------------------------------------------
\* Characters
\* ------------------------------------------------------------------------
Whitespace == {" ", "\t", "\n", "\r"}

UpperCase == <<"A", "B", "C", "D", "E", "F", "G", "H", "I", "J", "K", "L", "M",
               "N", "O", "P", "Q", "R", "S", "T", "U", "V", "W", "X", "Y", "Z">>

LowerCase == <<"a", "b", "c", "d", "e", "f", "g", "h", "i", "j", "k", "l", "m",
               "n", "o", "p", "q", "r", "s", "t", "u", "v", "w", "x", "y", "z">>

Digits == {"0", "1", "2", "3", "4", "5", "6", "7", "8", "9"}

Range(f) == {f[i] : i \in DOMAIN f}

IsSpace(ch) == ch \in Whitespace

\* case folding applied to both sides of a literal under re.IGNORECASE
lower(ch) ==
  IF \E i \in DOMAIN UpperCase : UpperCase[i] = ch
  THEN LowerCase[CHOOSE i \in DOMAIN UpperCase : UpperCase[i] = ch]
  ELSE ch

\* \w : letters, digits and underscore
IsWord(ch) == lower(ch) \in Range(LowerCase) \/ ch \in Digits \/ ch = "_"

\* ------------------------------------------------------------------------
\* Regular expressions
\* ------------------------------------------------------------------------
Lit(ch) == [op |-> "literal", ch |-> ch]
WordBoundary == [op |-> "\\b", ch |-> ""]
SpacePlus == [op |-> "\\s+", ch |-> ""]
SpaceStar == [op |-> "\\s*", ch |-> ""]
AnyStar == [op |-> ".*", ch |-> ""]
EmptyGroup == [op |-> "()", ch |-> ""]

Lits(s) == [i \in DOMAIN s |-> Lit(s[i])]

\* \b at position i (between s[i-1] and s[i])
AtBoundary(s, i) ==
  (i > 1 /\ IsWord(s[i - 1])) # (i <= Len(s) /\ IsWord(s[i]))

RECURSIVE MatchFrom(_, _, _, _)
\* atoms[k..] match a prefix of s[i..]
MatchFrom(atoms, k, s, i) ==
  IF k > Len(atoms) THEN TRUE
  ELSE LET a == atoms[k] IN
    CASE a.op = "literal" ->
           i <= Len(s) /\ lower(s[i]) = lower(a.ch) /\ MatchFrom(atoms, k + 1, s, i + 1)
      [] a.op = "\\b" -> AtBoundary(s, i) /\ MatchFrom(atoms, k + 1, s, i)
      [] a.op = "()" -> MatchFrom(atoms, k + 1, s, i)
      [] a.op = "\\s+" ->
           \E j \in (i + 1)..(Len(s) + 1) :
              (\A m \in i..(j - 1) : IsSpace(s[m])) /\ MatchFrom(atoms, k + 1, s, j)
      [] a.op = "\\s*" ->
           \E j \in i..(Len(s) + 1) :
              (\A m \in i..(j - 1) : IsSpace(s[m])) /\ MatchFrom(atoms, k + 1, s, j)
      [] a.op = ".*" ->
           \E j \in i..(Len(s) + 1) :
              (\A m \in i..(j - 1) : s[m] # "\n") /\ MatchFrom(atoms, k + 1, s, j)

\* re.search(pattern, s, re.IGNORECASE) is not None
re_search(pattern, s) ==
  \E i \in 1..(Len(s) + 1) :
     \E b \in DOMAIN pattern.alts : MatchFrom(pattern.alts[b], 1, s, i)

\* ------------------------------------------------------------------------
\* Policy table, in declaration order
\* ------------------------------------------------------------------------
POLICY_RULES ==
  <<
    [name |-> "destructive_commands",
     patterns |-> <<
        [text |-> "\\brm\\s+-rf\\s+/",
         alts |-> << <<WordBoundary>> \o Lits(<<"r", "m">>) \o <<SpacePlus>> \o Lits(<<"-", "r", "f">>) \o <<SpacePlus>> \o Lits(<<"/">>) >>],
        [text |-> "\\brm\\s+-rf\\s+\\*",
         alts |-> << <<WordBoundary>> \o Lits(<<"r", "m">>) \o <<SpacePlus>> \o Lits(<<"-", "r", "f">>) \o <<SpacePlus>> \o Lits(<<"*">>) >>],
        [text |-> "\\bdd\\s+.*of=/dev/",
         alts |-> << <<WordBoundary>> \o Lits(<<"d", "d">>) \o <<SpacePlus>> \o <<AnyStar>> \o Lits(<<"o", "f", "=", "/", "d", "e", "v", "/">>) >>],
        [text |-> "\\bmkfs\\.",
         alts |-> << <<WordBoundary>> \o Lits(<<"m", "k", "f", "s", ".">>) >>],
        [text |-> "\\b:(){:|:&};:",
         alts |-> << <<WordBoundary>> \o Lits(<<":">>) \o <<EmptyGroup>> \o Lits(<<"{", ":">>),
                     Lits(<<":", "&", "}", ";", ":">>) >>],
        [text |-> "\\bchmod\\s+-R\\s+777",
         alts |-> << <<WordBoundary>> \o Lits(<<"c", "h", "m", "o", "d">>) \o <<SpacePlus>> \o Lits(<<"-", "R">>) \o <<SpacePlus>> \o Lits(<<"7", "7", "7">>) >>] >>,
     message |-> "Destructive command blocked by ORG-SEC-001"],
    [name |-> "network_exfiltration",
     patterns |-> <<
        [text |-> "curl\\s+.*\\|\\s*bash",
         alts |-> << Lits(<<"c", "u", "r", "l">>) \o <<SpacePlus>> \o <<AnyStar>> \o Lits(<<"|">>) \o <<SpaceStar>> \o Lits(<<"b", "a", "s", "h">>) >>],
        [text |-> "wget\\s+.*\\|\\s*sh",
         alts |-> << Lits(<<"w", "g", "e", "t">>) \o <<SpacePlus>> \o <<AnyStar>> \o Lits(<<"|">>) \o <<SpaceStar>> \o Lits(<<"s", "h">>) >>],
        [text |-> "nc\\s+-l",
         alts |-> << Lits(<<"n", "c">>) \o <<SpacePlus>> \o Lits(<<"-", "l">>) >>],
        [text |-> "python.*-m\\s+http\\.server",
         alts |-> << Lits(<<"p", "y", "t", "h", "o", "n">>) \o <<AnyStar>> \o Lits(<<"-", "m">>) \o <<SpacePlus>> \o Lits(<<"h", "t", "t", "p", ".", "s", "e", "r", "v", "e", "r">>) >>] >>,
     message |-> "Network exfiltration risk blocked by ORG-SEC-002"],
    [name |-> "system_modification",
     patterns |-> <<
        [text |-> "\\bsudo\\s+rm",
         alts |-> << <<WordBoundary>> \o Lits(<<"s", "u", "d", "o">>) \o <<SpacePlus>> \o Lits(<<"r", "m">>) >>],
        [text |-> "\\bapt-get\\s+remove",
         alts |-> << <<WordBoundary>> \o Lits(<<"a", "p", "t", "-", "g", "e", "t">>) \o <<SpacePlus>> \o Lits(<<"r", "e", "m", "o", "v", "e">>) >>],
        [text |-> "\\byum\\s+remove",
         alts |-> << <<WordBoundary>> \o Lits(<<"y", "u", "m">>) \o <<SpacePlus>> \o Lits(<<"r", "e", "m", "o", "v", "e">>) >>],
        [text |-> "\\bsystemctl\\s+stop",
         alts |-> << <<WordBoundary>> \o Lits(<<"s", "y", "s", "t", "e", "m", "c", "t", "l">>) \o <<SpacePlus>> \o Lits(<<"s", "t", "o", "p">>) >>],
        [text |-> "\\bkill\\s+-9\\s+1",
         alts |-> << <<WordBoundary>> \o Lits(<<"k", "i", "l", "l">>) \o <<SpacePlus>> \o Lits(<<"-", "9">>) \o <<SpacePlus>> \o Lits(<<"1">>) >>] >>,
     message |-> "System modification requires approval - ORG-OPS-003"],
    [name |-> "sensitive_paths",
     patterns |-> <<
        [text |-> "/etc/passwd",
         alts |-> << Lits(<<"/", "e", "t", "c", "/", "p", "a", "s", "s", "w", "d">>) >>],
        [text |-> "/etc/shadow",
         alts |-> << Lits(<<"/", "e", "t", "c", "/", "s", "h", "a", "d", "o", "w">>) >>],
        [text |-> "\\.ssh/id_rsa",
         alts |-> << Lits(<<".", "s", "s", "h", "/", "i", "d", "_", "r", "s", "a">>) >>],
        [text |-> "\\.aws/credentials",
         alts |-> << Lits(<<".", "a", "w", "s", "/", "c", "r", "e", "d", "e", "n", "t", "i", "a", "l", "s">>) >>],
        [text |-> "\\.env",
         alts |-> << Lits(<<".", "e", "n", "v">>) >>] >>,
     message |-> "Access to sensitive files blocked - ORG-SEC-004"]
  >>

ALLOWED_COMMANDS ==
  { <<"g", "i", "t">>, <<"l", "s">>, <<"c", "a", "t">>, <<"e", "c", "h", "o">>,
    <<"p", "w", "d">>, <<"c", "d">>, <<"g", "r", "e", "p">>,
    <<"f", "i", "n", "d">>, <<"n", "p", "m">>, <<"y", "a", "r", "n">>,
    <<"p", "y", "t", "h", "o", "n">>, <<"n", "o", "d", "e">>, <<"p", "i", "p">>,
    <<"d", "o", "c", "k", "e", "r">>, <<"k", "u", "b", "e", "c", "t", "l">>,
    <<"t", "e", "r", "r", "a", "f", "o", "r", "m">>, <<"m", "a", "k", "e">>,
    <<"c", "a", "r", "g", "o">> }

\* ------------------------------------------------------------------------
\* Inputs
\* ------------------------------------------------------------------------
CmdEmpty == <<>>
CmdGitStatus == <<"g", "i", "t", " ", "s", "t", "a", "t", "u", "s">>
CmdFoo == <<"f", "o", "o">>
CmdPaddedLs == <<" ", " ", "l", "s", "\t">>
CmdBlank == <<" ", "\n">>
CmdRmRf == <<"r", "m", " ", "-", "r", "f", " ", "/">>
CmdSudoRmRf == <<"s", "u", "d", "o", " ", "r", "m", " ", "-", "r", "f", " ", "/">>
CmdShadowPasswd == <<"c", "a", "t", " ", "/", "e", "t", "c", "/", "s", "h", "a", "d", "o", "w", " ", "/", "e", "t", "c", "/", "p", "a", "s", "s", "w", "d">>
CmdCurlBash == <<"c", "u", "r", "l", " ", "x", " ", "|", " ", "b", "a", "s", "h">>
CmdCurlNewline == <<"c", "u", "r", "l", " ", "x", "\n", "|", " ", "b", "a", "s", "h">>
CmdForkTail == <<":", "&", "}", ";", ":">>
CmdUpperRm == <<"R", "M", " ", "-", "R", "F", " ", "*">>
CmdSyncL == <<"s", "y", "n", "c", " ", "-", "l">>
CmdXrm == <<"x", "r", "m", " ", "-", "r", "f", " ", "/">>
CmdPathGit == <<"/", "u", "s", "r", "/", "b", "i", "n", "/", "g", "i", "t", " ", "l", "o", "g">>
CmdPaddedEnv == <<" ", "c", "a", "t", " ", ".", "e", "n", "v", "\n">>
CmdSudoRm == <<"s", "u", "d", "o", " ", "r", "m", " ", "x">>

Commands ==
  { CmdEmpty, CmdGitStatus, CmdFoo, CmdPaddedLs,
    CmdBlank, CmdRmRf, CmdSudoRmRf, CmdShadowPasswd,
    CmdCurlBash, CmdCurlNewline, CmdForkTail, CmdUpperRm,
    CmdSyncL, CmdXrm, CmdPathGit, CmdPaddedEnv,
    CmdSudoRm }

LongCommands == {CmdGitStatus, CmdRmRf}

ConcCommands == {CmdFoo, CmdSudoRm}

ToolNames ==
  {"validate_command", "execute_validated_command", "get_validation_stats", "list_policies"}

UnknownNames == {"run_shell", "validate"}

None == "None"

\* ------------------------------------------------------------------------
\* String helpers used by validate_command
\* ------------------------------------------------------------------------
RECURSIVE lstrip(_)
lstrip(s) == IF s # <<>> /\ IsSpace(Head(s)) THEN lstrip(Tail(s)) ELSE s

RECURSIVE rstrip(_)
rstrip(s) ==
  IF s # <<>> /\ IsSpace(s[Len(s)]) THEN rstrip(SubSeq(s, 1, Len(s) - 1)) ELSE s

\* variant of strip that removes leading whitespace only
strip_leading(s) == lstrip(s)

\* str.strip()
strip(s) == rstrip(lstrip(s))

RECURSIVE take_word(_)
take_word(s) ==
  IF s = <<>> \/ IsSpace(Head(s)) THEN <<>> ELSE <<Head(s)>> \o take_word(Tail(s))

\* command.split()[0] if command.split() else ""
first_word(command) == take_word(lstrip(command))

\* first_word.split("/")[-1]
base_command(word) ==
  LET slashes == {i \in DOMAIN word : word[i] = "/"}
  IN IF slashes = {} THEN word
     ELSE SubSeq(word, (CHOOSE i \in slashes : \A k \in slashes : k <= i) + 1, Len(word))

\* ------------------------------------------------------------------------
\* CommandValidator
\* ------------------------------------------------------------------------
NoHit == [matched |-> FALSE]

RECURSIVE scan_patterns_last(_, _, _)
\* variant of the inner loop that keeps scanning and reports the last matching pattern
scan_patterns_last(policy, j, command) ==
  IF j > Len(policy.patterns) THEN NoHit
  ELSE LET rest == scan_patterns_last(policy, j + 1, command)
       IN IF rest.matched THEN rest
          ELSE IF re_search(policy.patterns[j], command)
               THEN [matched |-> TRUE, policy_name |-> policy.name,
                     message |-> policy.message, pattern |-> policy.patterns[j].text]
               ELSE NoHit

RECURSIVE scan_patterns(_, _, _)
\* inner loop: for pattern in policy["patterns"]
scan_patterns(policy, j, command) ==
  IF j > Len(policy.patterns) THEN NoHit
  ELSE IF re_search(policy.patterns[j], command)
       THEN [matched |-> TRUE, policy_name |-> policy.name,
             message |-> policy.message, pattern |-> policy.patterns[j].text]
       ELSE scan_patterns(policy, j + 1, command)

RECURSIVE scan_policies(_, _)
\* outer loop: for policy_name, policy in POLICY_RULES.items()
scan_policies(i, command) ==
  IF i > Len(POLICY_RULES) THEN NoHit
  ELSE LET hit == scan_patterns(POLICY_RULES[i], 1, command)
       IN IF hit.matched THEN hit ELSE scan_policies(i + 1, command)

\* the scan of every input of the model, evaluated once
ScanTable == [c \in {strip(a) : a \in Commands} |-> scan_policies(1, c)]

first_hit(command) ==
  IF command \in DOMAIN ScanTable THEN ScanTable[command] ELSE scan_policies(1, command)

\* CommandValidator.__init__
NewValidator == [violation_count |-> 0, audit_log |-> <<>>]

Blocked(self, command, hit) ==
  [self |-> [violation_count |-> self.violation_count + 1,
             audit_log |-> Append(self.audit_log,
                                  [command |-> command,
                                   policy |-> hit.policy_name,
                                   status |-> "BLOCKED"])],
   result |-> [allowed |-> FALSE,
               reason |-> hit.message,
               policy |-> hit.policy_name,
               pattern_matched |-> hit.pattern]]

Allowed(self, command) ==
  [self |-> [violation_count |-> self.violation_count,
             audit_log |-> Append(self.audit_log,
                                  [command |-> command, status |-> "ALLOWED"])],
   result |-> [allowed |-> TRUE,
               reason |-> "Command passed all policy checks",
               policy |-> None]]

\* variant of validate_command that enforces ALLOWED_COMMANDS on the base command
validate_command_allowlist(self, raw) ==
  LET command == strip(raw)
      hit == first_hit(command)
  IN IF hit.matched THEN Blocked(self, command, hit)
     ELSE IF base_command(first_word(command)) \notin ALLOWED_COMMANDS
          THEN Blocked(self, command,
                       [matched |-> TRUE, policy_name |-> "allowlist",
                        message |-> "Command not in allowlist", pattern |-> ""])
          ELSE Allowed(self, command)

\* variant of validate_command that counts every call as a violation
validate_command_countall(self, raw) ==
  LET command == strip(raw)
      hit == first_hit(command)
      out == IF hit.matched THEN Blocked(self, command, hit) ELSE Allowed(self, command)
  IN [self |-> [violation_count |-> self.violation_count + 1,
                audit_log |-> out.self.audit_log],
      result |-> out.result]

\* variant of validate_command that does not log a command equal to the last one logged
validate_command_dedup(self, raw) ==
  LET command == strip(raw)
      hit == first_hit(command)
      out == IF hit.matched THEN Blocked(self, command, hit) ELSE Allowed(self, command)
      log == self.audit_log
  IN IF log # <<>> /\ log[Len(log)].command = command
     THEN [self |-> [violation_count |-> out.self.violation_count, audit_log |-> log],
           result |-> out.result]
     ELSE out

\* CommandValidator.validate_command: the validator after the call and the dict returned
validate_command(self, raw) ==
  LET command == strip(raw)
      hit == first_hit(command)
  IN IF hit.matched THEN Blocked(self, command, hit) ELSE Allowed(self, command)

\* width of the recent_log window: audit_log[-10:]
RecentWindow == 10

\* variant of the slice that takes the head of the sequence: seq[:n]
last_slice_head(seq, n) ==
  SubSeq(seq, 1, IF Len(seq) < n THEN Len(seq) ELSE n)

\* seq[-n:]
last_slice(seq, n) ==
  LET start == IF Len(seq) - n > 0 THEN Len(seq) - n ELSE 0
  IN SubSeq(seq, start + 1, Len(seq))

\* CommandValidator.get_stats
get_stats(self) ==
  [total_commands |-> Len(self.audit_log),
   blocked |-> self.violation_count,
   allowed |-> Len(self.audit_log) - self.violation_count,
   recent_log |-> last_slice(self.audit_log, RecentWindow)]

\* ------------------------------------------------------------------------
\* Tool-call facade
\* ------------------------------------------------------------------------
EmptyArgs == <<>>

Arguments == {[command |-> c] : c \in Commands} \cup {EmptyArgs}

\* arguments.get(key, default)
dict_get(arguments, key, default) ==
  IF key \in DOMAIN arguments THEN arguments[key] ELSE default

\* return [TextContent(type="text", text=json.dumps(payload))]
TextResult(payload) == [isError |-> FALSE, payload |-> payload]

\* raise ValueError(message)
Raised(message) == [isError |-> TRUE, payload |-> message]

policy_listing ==
  [n \in {POLICY_RULES[i].name : i \in DOMAIN POLICY_RULES} |->
     LET policy == POLICY_RULES[CHOOSE i \in DOMAIN POLICY_RULES : POLICY_RULES[i].name = n]
     IN [message |-> policy.message, pattern_count |-> Len(policy.patterns)]]

\* branch name == "validate_command"
tool_validate(arguments, self) ==
  LET command == dict_get(arguments, "command", <<>>)
      v == validate_command(self, command)
  IN [self |-> v.self, response |-> TextResult(v.result)]

ExecutePayload(command, result) ==
  IF ~result.allowed
  THEN [status |-> "blocked",
        command |-> command,
        reason |-> result.reason,
        policy |-> result.policy]
  ELSE [status |-> "success",
        command |-> command,
        validation |-> "passed",
        output |-> <<"[SIMULATED] Command '", command, "' would be executed here">>]

\* variant of the execute branch that validates the command a second time before answering
tool_execute_revalidate(arguments, self) ==
  LET command == dict_get(arguments, "command", <<>>)
      v1 == validate_command(self, command)
      v2 == validate_command(v1.self, command)
  IN [self |-> v2.self, response |-> TextResult(ExecutePayload(command, v2.result))]

\* branch name == "execute_validated_command"
tool_execute(arguments, self) ==
  LET command == dict_get(arguments, "command", <<>>)
      validation == validate_command(self, command)
  IN [self |-> validation.self,
      response |-> TextResult(ExecutePayload(command, validation.result))]

\* variant of the stats branch that records the stats request in the audit log
tool_stats_logged(self) ==
  [self |-> [violation_count |-> self.violation_count,
             audit_log |-> Append(self.audit_log,
                                  [command |-> <<>>, status |-> "ALLOWED"])],
   response |-> TextResult(get_stats(self))]

\* branch name == "get_validation_stats"
tool_stats(self) == [self |-> self, response |-> TextResult(get_stats(self))]

\* branch name == "list_policies"
tool_list_policies(self) == [self |-> self, response |-> TextResult(policy_listing)]

\* variant of the final branch that validates the command instead of raising
tool_unknown_validates(name, arguments, self) == tool_validate(arguments, self)

\* final else branch
tool_unknown(name, arguments, self) ==
  [self |-> self, response |-> Raised(<<"Unknown tool: ", name>>)]

\* call_tool: the validator after the call and the outcome handed to the transport
call_tool(name, arguments, self) ==
  CASE name = "validate_command" -> tool_validate(arguments, self)
    [] name = "execute_validated_command" -> tool_execute(arguments, self)
    [] name = "get_validation_stats" -> tool_stats(self)
    [] name = "list_policies" -> tool_list_policies(self)
    [] OTHER -> tool_unknown(name, arguments, self)

\* ------------------------------------------------------------------------
\* State
\* ------------------------------------------------------------------------
VARIABLES
  violation_count,   \* validator.violation_count
  audit_log,         \* validator.audit_log
  request,           \* the tool call handled last
  response,          \* what that call handed back
  validate_calls,    \* number of calls that invoked validate_command so far
  last_stats,        \* the get_stats answer given since the last validation, if any
  tasks,             \* SpecConc: the call_tool coroutines accepted by the server
  running            \* SpecConc: the coroutine holding the event loop, 0 if none

vars ==
  <<violation_count, audit_log, request, response, validate_calls, last_stats,
    tasks, running>>

validator == [violation_count |-> violation_count, audit_log |-> audit_log]

NoRequest == [name |-> None, arguments |-> EmptyArgs]

NoResponse == [isError |-> FALSE, payload |-> None]

IsValidating(name) == name \in {"validate_command", "execute_validated_command"}

Init ==
  /\ violation_count = NewValidator.violation_count
  /\ audit_log = NewValidator.audit_log
  /\ request = NoRequest
  /\ response = NoResponse
  /\ validate_calls = 0
  /\ last_stats = <<>>
  /\ tasks = <<>>
  /\ running = 0

\* one tool call, handled to completion
Handle(name, arguments) ==
  LET r == call_tool(name, arguments, validator)
  IN /\ violation_count' = r.self.violation_count
     /\ audit_log' = r.self.audit_log
     /\ request' = [name |-> name, arguments |-> arguments]
     /\ response' = r.response
     /\ validate_calls' = validate_calls + (IF IsValidating(name) THEN 1 ELSE 0)
     /\ last_stats' = IF name = "get_validation_stats" THEN <<r.response>>
                      ELSE IF IsValidating(name) THEN <<>>
                      ELSE last_stats
     /\ UNCHANGED <<tasks, running>>

ValidateCommand ==
  \E a \in Arguments : Len(audit_log) < MaxLog /\ Handle("validate_command", a)

ExecuteValidatedCommand ==
  \E a \in Arguments : Len(audit_log) < MaxLog /\ Handle("execute_validated_command", a)

GetValidationStats == Handle("get_validation_stats", EmptyArgs)

ListPolicies == Handle("list_policies", EmptyArgs)

UnknownTool ==
  \E n \in UnknownNames : \E a \in {EmptyArgs, [command |-> CmdRmRf]} : Handle(n, a)

Next ==
  \/ ValidateCommand
  \/ ExecuteValidatedCommand
  \/ GetValidationStats
  \/ ListPolicies
  \/ UnknownTool

Spec == Init /\ [][Next]_vars

\* ------------------------------------------------------------------------
\* Long runs of validate calls (audit log longer than the recent_log window)
\* ------------------------------------------------------------------------
LongValidate ==
  \E c \in LongCommands :
     Len(audit_log) < MaxLongLog /\ Handle("validate_command", [command |-> c])

NextLong ==
  \/ LongValidate
  \/ GetValidationStats

SpecLong == Init /\ [][NextLong]_vars

\* ------------------------------------------------------------------------
\* Claims checked under Spec and SpecLong
\* ------------------------------------------------------------------------
PassedCommand(req) == dict_get(req.arguments, "command", <<>>)

\* the (policy index, pattern index) pairs whose pattern is found in each input
MatchSet ==
  [c \in Commands |->
     {ij \in UNION {{<<i, j>> : j \in DOMAIN POLICY_RULES[i].patterns} : i \in DOMAIN POLICY_RULES} :
        re_search(POLICY_RULES[ij[1]].patterns[ij[2]], c)}]

Minimum(S) == CHOOSE x \in S : \A y \in S : x <= y

CountBlocked(log) == Cardinality({i \in DOMAIN log : log[i].status = "BLOCKED"})

AppendedOne == 
  /\ Len(audit_log') = Len(audit_log) + 1
  /\ SubSeq(audit_log', 1, Len(audit_log)) = audit_log

NewEntry == audit_log'[Len(audit_log')]

C1_Step ==
  LET cmd == PassedCommand(request')
      M == MatchSet[cmd]
      pi == Minimum({ij[1] : ij \in M})
      pj == Minimum({ij[2] : ij \in {m \in M : m[1] = pi}})
      r == response'.payload
  IN (request'.name = "validate_command" /\ M # {}) =>
       /\ ~response'.isError
       /\ r.allowed = FALSE
       /\ r.policy = POLICY_RULES[pi].name
       /\ r.reason = POLICY_RULES[pi].message
       /\ r.pattern_matched = POLICY_RULES[pi].patterns[pj].text
       /\ violation_count' = violation_count + 1
       /\ AppendedOne
       /\ NewEntry.status = "BLOCKED"
       /\ NewEntry.policy = POLICY_RULES[pi].name

\* C1: a validate_command call whose command matches some pattern returns allowed=false
\* with the first policy in declaration order that has a matching pattern and the first
\* matching pattern of that policy, adds exactly 1 to the blocked counter and appends one
\* BLOCKED entry tagged with that policy.
C1_FirstMatchBlocks == [][C1_Step]_vars

\* a command was blocked that matches an earlier and a later policy, or an earlier and a
\* later pattern of one policy
C1_Witness ==
  /\ request.name = "validate_command"
  /\ response.payload.allowed = FALSE
  /\ Cardinality(MatchSet[PassedCommand(request)]) >= 2
  /\ audit_log # <<>>

C2_Step ==
  LET cmd == PassedCommand(request')
      r == response'.payload
  IN (request'.name = "validate_command" /\ MatchSet[cmd] = {}) =>
       /\ ~response'.isError
       /\ r.allowed = TRUE
       /\ r.policy = None
       /\ "pattern_matched" \notin DOMAIN r
       /\ violation_count' = violation_count
       /\ AppendedOne
       /\ NewEntry.status = "ALLOWED"

\* C2: a validate_command call whose command matches no pattern (the empty string
\* included, base command in ALLOWED_COMMANDS or not) returns allowed=true with no
\* policy, appends exactly one ALLOWED entry and leaves the blocked counter unchanged.
C2_NoMatchAllowed == [][C2_Step]_vars

\* a command whose base command is outside ALLOWED_COMMANDS was allowed
C2_Witness ==
  /\ request.name = "validate_command"
  /\ "command" \in DOMAIN request.arguments
  /\ base_command(first_word(PassedCommand(request))) \notin ALLOWED_COMMANDS
  /\ response.payload.allowed = TRUE
  /\ audit_log # <<>>
  /\ audit_log[Len(audit_log)].status = "ALLOWED"

\* C3: the blocked counter equals the number of BLOCKED audit entries and the total
\* reported by get_stats equals the length of the audit log, in every state between
\* tool calls.
C3_CounterMatchesLog ==
  /\ violation_count = CountBlocked(audit_log)
  /\ get_stats(validator).total_commands = Len(audit_log)
  /\ get_stats(validator).blocked = CountBlocked(audit_log)
  /\ get_stats(validator).allowed = Len(audit_log) - CountBlocked(audit_log)

\* the log holds a blocked and an allowed command
C3_Witness ==
  /\ Len(audit_log) = 2
  /\ violation_count = 1
  /\ audit_log[1].status = "BLOCKED"
  /\ audit_log[2].status = "ALLOWED"

C4_Step ==
  /\ IsValidating(request'.name) => AppendedOne
  /\ Len(audit_log') >= Len(audit_log)
  /\ SubSeq(audit_log', 1, Len(audit_log)) = audit_log
  /\ get_stats([violation_count |-> violation_count', audit_log |-> audit_log']).total_commands
       = validate_calls'

\* C4: the audit log is append-only in call order: every call that validates appends
\* exactly one entry at the end and changes no earlier entry, no call removes or reorders
\* entries, and after N validating calls get_stats reports total_commands = N.
C4_AppendOnly == [][C4_Step]_vars

\* the same command was validated twice and is logged twice
C4_Witness ==
  /\ validate_calls = 2
  /\ Len(audit_log) = 2
  /\ audit_log[1] = audit_log[2]

\* C5: recent_log has at most 10 entries and is the suffix of the audit log holding its
\* min(10, len) most recent entries, oldest first.
C5_RecentLogIsSuffix ==
  LET r == get_stats(validator).recent_log
      n == Len(audit_log)
      k == IF n < 10 THEN n ELSE 10
  IN /\ Len(r) <= 10
     /\ Len(r) = k
     /\ \A i \in 1..k : r[i] = audit_log[n - k + i]
     /\ (request.name = "get_validation_stats" => response.payload.recent_log = r)

\* get_stats answered on a log longer than the window whose head differs from its tail
C5_Witness ==
  /\ request.name = "get_validation_stats"
  /\ Len(audit_log) > 10
  /\ Len(response.payload.recent_log) = 10
  /\ audit_log[1] # audit_log[Len(audit_log)]
  /\ audit_log[1] # audit_log[2]

C6_Step ==
  /\ request'.name \in {"get_validation_stats", "list_policies"} =>
        /\ audit_log' = audit_log
        /\ violation_count' = violation_count
        /\ ~response'.isError
  /\ (request'.name = "get_validation_stats" /\ last_stats # <<>>) =>
        response' = last_stats[1]

\* C6: get_validation_stats and list_policies leave the audit log and the blocked counter
\* unchanged, and a get_stats call returns what the previous get_stats call returned when
\* no validation happened between them.
C6_ReadOnlyTools == [][C6_Step]_vars

\* get_stats answered on a non-empty log, then list_policies was called
C6_Witness ==
  /\ request.name = "list_policies"
  /\ last_stats # <<>>
  /\ last_stats[1].payload.total_commands = 2
  /\ last_stats[1].payload.blocked = 1

C7_Step ==
  LET cmd == PassedCommand(request')
      v == validate_command(validator, cmd)
      r == response'.payload
  IN request'.name = "execute_validated_command" =>
       /\ ~response'.isError
       /\ r.status \in {"blocked", "success"}
       /\ (r.status = "blocked") = ~v.result.allowed
       /\ (r.status = "blocked") = (MatchSet[cmd] # {})
       /\ r.command = cmd
       /\ r.status = "blocked" =>
            /\ r.reason = v.result.reason
            /\ r.policy = v.result.policy
            /\ DOMAIN r = {"status", "command", "reason", "policy"}
       /\ r.status = "success" =>
            /\ r.output = <<"[SIMULATED] Command '", cmd, "' would be executed here">>
            /\ r.validation = "passed"
       /\ AppendedOne
       /\ NewEntry.status = (IF r.status = "blocked" THEN "BLOCKED" ELSE "ALLOWED")
       /\ violation_count' = violation_count + (IF r.status = "blocked" THEN 1 ELSE 0)
       /\ audit_log' = v.self.audit_log

C8_Step ==
  request'.name \notin ToolNames =>
    /\ response'.isError
    /\ response'.payload = <<"Unknown tool: ", request'.name>>
    /\ audit_log' = audit_log
    /\ violation_count' = violation_count
    /\ \A n \in ToolNames : \A a \in {EmptyArgs, [command |-> CmdSudoRmRf]} :
          call_tool(n, a, [violation_count |-> violation_count', audit_log |-> audit_log'])
            = call_tool(n, a, validator)

\* C8: a call with an unsupported tool name ends in an error outcome, not a validation
\* result, and leaves the audit log and the blocked counter unchanged, so that later
\* calls answer as they would have without it.
C8_UnknownToolIsError == [][C8_Step]_vars

\* an unsupported tool name was called with a blockable command on a non-empty log
C8_Witness ==
  /\ request.name \in UnknownNames
  /\ "command" \in DOMAIN request.arguments
  /\ response.isError
  /\ audit_log # <<>>

C10_OriginalStep ==
  IsValidating(request'.name) => NewEntry.command = PassedCommand(request')

\* C10 as stated: the appended audit entry records exactly the string the caller passed.
C10_EntryRecordsPassedText == [][C10_OriginalStep]_vars

C10_Step ==
  LET cmd == PassedCommand(request')
      e == NewEntry.command
  IN IsValidating(request'.name) =>
       /\ \E i \in 1..(Len(cmd) + 1) : \E j \in 0..Len(cmd) :
             /\ e = SubSeq(cmd, i, j)
             /\ \A k \in 1..Len(cmd) : (k < i \/ k > j) => IsSpace(cmd[k])
       /\ e # <<>> => (~IsSpace(e[1]) /\ ~IsSpace(e[Len(e)]))
       /\ request'.name = "execute_validated_command" => response'.payload.command = cmd

\* C10 amended: the appended audit entry records the passed string with its leading and
\* trailing whitespace removed (the passed string itself when it has none), while
\* execute_validated_command echoes the passed string unchanged.
C10_EntryRecordsStrippedText == [][C10_Step]_vars

\* a whitespace-padded command was validated and logged without its padding
C10_Witness ==
  /\ IsValidating(request.name)
  /\ audit_log # <<>>
  /\ PassedCommand(request) # <<>>
  /\ IsSpace(PassedCommand(request)[1])
  /\ audit_log[Len(audit_log)].command # <<>>
  /\ audit_log[Len(audit_log)].command # PassedCommand(request)

\* ------------------------------------------------------------------------
\* The handler as an asyncio coroutine, statement by statement
\* ------------------------------------------------------------------------
\* every tool call the transport may deliver in SpecConc
ConcCalls ==
  {[name |-> n, arguments |-> [command |-> c]] :
     n \in {"validate_command", "execute_validated_command"}, c \in ConcCommands}
  \cup {[name |-> n, arguments |-> EmptyArgs] :
          n \in {"get_validation_stats", "list_policies", "run_shell"}}

\* variant of the handler with an await between the counter increment and the log append
AwaitPointsBeforeAppend == {"append_blocked"}

\* the statements of call_tool and validate_command before which the coroutine awaits
AwaitPoints == {}

NewTask(call) ==
  [name |-> call.name, arguments |-> call.arguments, pc |-> "start",
   command |-> <<>>, hit |-> NoHit, tmp |-> 0, response |-> NoResponse]

\* the event loop is free for task t, or t already holds it
MayRun(t) ==
  /\ t \in DOMAIN tasks
  /\ running \in {0, t}
  /\ tasks[t].pc # "done"

\* task t moves to pc p with its locals changed to upd; it keeps the event loop unless
\* it finished or p is an await point
Advance(t, p, upd) ==
  /\ tasks' = [tasks EXCEPT ![t] = [upd EXCEPT !.pc = p]]
  /\ running' = IF p = "done" \/ p \in AwaitPoints THEN 0 ELSE t

\* the server accepts a request and schedules its handler
Accept ==
  \E call \in ConcCalls :
     /\ running = 0
     /\ Len(tasks) < MaxTasks
     /\ tasks' = Append(tasks, NewTask(call))
     /\ UNCHANGED <<violation_count, audit_log, running>>

\* command = arguments.get("command", ""); command = command.strip(); the policy scan
StartValidation(t) ==
  /\ MayRun(t)
  /\ tasks[t].pc = "start"
  /\ IsValidating(tasks[t].name)
  /\ LET command == strip(dict_get(tasks[t].arguments, "command", <<>>))
         hit == first_hit(command)
     IN Advance(t, IF hit.matched THEN "load_count" ELSE "append_allowed",
                [tasks[t] EXCEPT !.command = command, !.hit = hit])
  /\ UNCHANGED <<violation_count, audit_log>>

\* self.violation_count += 1, the read
LoadCount(t) ==
  /\ MayRun(t)
  /\ tasks[t].pc = "load_count"
  /\ Advance(t, "store_count", [tasks[t] EXCEPT !.tmp = violation_count])
  /\ UNCHANGED <<violation_count, audit_log>>

\* self.violation_count += 1, the write
StoreCount(t) ==
  /\ MayRun(t)
  /\ tasks[t].pc = "store_count"
  /\ violation_count' = tasks[t].tmp + 1
  /\ Advance(t, "append_blocked", tasks[t])
  /\ UNCHANGED audit_log

\* self.audit_log.append({... "status": "BLOCKED"})
AppendBlocked(t) ==
  /\ MayRun(t)
  /\ tasks[t].pc = "append_blocked"
  /\ audit_log' = Append(audit_log, [command |-> tasks[t].command,
                                     policy |-> tasks[t].hit.policy_name,
                                     status |-> "BLOCKED"])
  /\ Advance(t, "return", tasks[t])
  /\ UNCHANGED violation_count

\* self.audit_log.append({... "status": "ALLOWED"})
AppendAllowed(t) ==
  /\ MayRun(t)
  /\ tasks[t].pc = "append_allowed"
  /\ audit_log' = Append(audit_log, [command |-> tasks[t].command, status |-> "ALLOWED"])
  /\ Advance(t, "return", tasks[t])
  /\ UNCHANGED violation_count

\* the return statements of validate_command and of the two validating branches
Return(t) ==
  /\ MayRun(t)
  /\ tasks[t].pc = "return"
  /\ LET hit == tasks[t].hit
         result == IF hit.matched
                   THEN [allowed |-> FALSE, reason |-> hit.message,
                         policy |-> hit.policy_name, pattern_matched |-> hit.pattern]
                   ELSE [allowed |-> TRUE, reason |-> "Command passed all policy checks",
                         policy |-> None]
         raw == dict_get(tasks[t].arguments, "command", <<>>)
         payload == IF tasks[t].name = "validate_command" THEN result
                    ELSE ExecutePayload(raw, result)
     IN Advance(t, "done", [tasks[t] EXCEPT !.response = TextResult(payload)])
  /\ UNCHANGED <<violation_count, audit_log>>

\* the branches that only read: get_validation_stats, list_policies, unknown name
ReadOnlyCall(t) ==
  /\ MayRun(t)
  /\ tasks[t].pc = "start"
  /\ ~IsValidating(tasks[t].name)
  /\ Advance(t, "done",
             [tasks[t] EXCEPT !.response =
                call_tool(tasks[t].name, tasks[t].arguments, validator).response])
  /\ UNCHANGED <<violation_count, audit_log>>

ConcStep(A) == A /\ UNCHANGED <<request, response, validate_calls, last_stats>>

NextConc ==
  \/ ConcStep(Accept)
  \/ \E t \in 1..MaxTasks : ConcStep(StartValidation(t))
  \/ \E t \in 1..MaxTasks : ConcStep(LoadCount(t))
  \/ \E t \in 1..MaxTasks : ConcStep(StoreCount(t))
  \/ \E t \in 1..MaxTasks : ConcStep(AppendBlocked(t))
  \/ \E t \in 1..MaxTasks : ConcStep(AppendAllowed(t))
  \/ \E t \in 1..MaxTasks : ConcStep(Return(t))
  \/ \E t \in 1..MaxTasks : ConcStep(ReadOnlyCall(t))

SpecConc == Init /\ [][NextConc]_vars

Done(t) == tasks[t].pc = "done"

\* C9: tool calls are handled one at a time to completion: at most one handler is ever
\* part-way through, every get_validation_stats answer reports a blocked count equal to
\* the number of BLOCKED entries of the log it saw, and whenever no handler holds the
\* event loop the counter and the log account for every completed validation.
C9_HandledToCompletion ==
  /\ Cardinality({t \in DOMAIN tasks : tasks[t].pc \notin {"start", "done"}}) <= 1
  /\ \A t \in DOMAIN tasks :
        (Done(t) /\ tasks[t].name = "get_validation_stats") =>
           LET s == tasks[t].response.payload
           IN /\ s.total_commands = Len(s.recent_log)
              /\ s.blocked = CountBlocked(s.recent_log)
  /\ running = 0 =>
        /\ \A t \in DOMAIN tasks : tasks[t].pc \in {"start", "done"}
        /\ Len(audit_log) =
             Cardinality({t \in DOMAIN tasks : Done(t) /\ IsValidating(tasks[t].name)})
        /\ violation_count =
             Cardinality({t \in DOMAIN tasks :
                            Done(t) /\ IsValidating(tasks[t].name) /\ tasks[t].hit.matched})
        /\ violation_count = CountBlocked(audit_log)

\* a stats call accepted before a blocked validation ran after it and saw its entry
C9_Witness ==
  /\ Len(tasks) >= 2
  /\ tasks[1].name = "get_validation_stats"
  /\ Done(1)
  /\ tasks[1].response.payload.blocked = 1
  /\ IsValidating(tasks[2].name)
  /\ Done(2)
====
